---------------------------- MODULE Spec2Model ----------------------------
(***************************************************************************)
(* Model of the inventory simulator (dlfelps/kalman_demo):                 *)
(*   - utils.distribute_items_randomly and utils.calculate_neighbor        *)
(*   - Simulator (ground truth, step())                                    *)
(*   - Observer (round-robin schedule, belief table, scalar Kalman filter) *)
(*   - SimulationRunner.run() and Analytics.generate_report                *)
(*                                                                         *)
(* Random draws of numpy's generator are nondeterministic choices over the *)
(* support of the distribution drawn from.  Floating point values are       *)
(* fixed-point numbers with resolution 1 / Scale.                          *)
(***************************************************************************)
EXTENDS Integers, Sequences, FiniteSets, TLC

\* ------------------------------------------------------------------ bounds
MaxShelves == 3
MaxCapacity == 2
MaxSteps == 3
MaxInterval == 2
MaxTrapStart == 1
MaxItems == 2
MaxHandles == 2
MaxField == 2
MaxObserverShelves == 5
MaxObservations == 6
\* resolution of the fixed-point model of floats: 1 / Scale
Scale == 1000

\* --------------------------------------------------------- program constants
\* utils.py: max_attempts = total_items * 100
AttemptsPerItem == 100
\* observer.py: self._kf_covariance = 1000.0
InitialCovariance == 1000
\* observer.py: R = 10.0 + 0.5 * sum(uncertainty)
BaseNoise == 10

\* -------------------------------------------------------------- fixed point
\* A Python float is modelled as a fixed-point number: the integer v stands
\* for v / Scale, and every multiplication and division rounds its result to
\* the nearest representable value, as IEEE arithmetic does.
Abs(a) == IF a < 0 THEN -a ELSE a

\* a / b rounded to the nearest integer (b > 0)
RoundDiv(a, b) == (a + (b \div 2)) \div b

Fix(i) == i * Scale

FixMul(a, b) == RoundDiv(a * b, Scale)

FixDiv(a, b) == RoundDiv(a * Scale, b)

\* ------------------------------------------------------------------- state
VARIABLES
    \* SimulatorConfig
    config,
    \* distribute_items_randomly (its locals and position)
    dist_pc, distribution, items_placed, attempts, shelf_idx, fallback_placed,
    \* Simulator
    inventory, current_step, trap_active,
    \* Simulator.step locals
    initial_quantities, shelf_id, num_items_to_move, item_index,
    total_movements, last_source, last_dest, last_direction,
    \* Observer
    observable_shelves, estimates, current_observation_index,
    kf_state, kf_covariance, kf_process_noise, get_quantity_calls,
    \* SimulationRunner.run (its locals and position)
    pc, step, num_steps, report_interval, analytics_history, events_log,
    results, error,
    \* the DataFrames a caller got from get_state() and get_estimates()
    handles,
    \* the generator instances that have produced at least one draw
    rng_used

configVars == <<config>>
callerVars == <<handles>>
rngVars == <<rng_used>>
distVars == <<dist_pc, distribution, items_placed, attempts, shelf_idx,
              fallback_placed>>
simVars == <<inventory, current_step, trap_active>>
stepLocals == <<initial_quantities, shelf_id, num_items_to_move, item_index,
                total_movements, last_source, last_dest, last_direction>>
obsVars == <<observable_shelves, estimates, current_observation_index,
             kf_state, kf_covariance, kf_process_noise, get_quantity_calls>>
runVars == <<pc, step, num_steps, report_interval, analytics_history,
             events_log, results, error>>
vars == <<configVars, callerVars, rngVars, distVars, simVars, stepLocals, obsVars,
          runVars>>

\* ----------------------------------------------------------------- helpers
RECURSIVE SumTo(_, _)
\* sum of f[0] .. f[n-1]
SumTo(f, n) == IF n = 0 THEN 0 ELSE f[n - 1] + SumTo(f, n - 1)

RECURSIVE SumOver(_, _)
\* sum of f[i] for i in the finite set S
SumOver(f, S) ==
    IF S = {} THEN 0
    ELSE LET i == CHOOSE j \in S : TRUE IN f[i] + SumOver(f, S \ {i})

RECURSIVE MaxOf(_)
MaxOf(S) ==
    LET i == CHOOSE j \in S : TRUE
    IN  IF S = {i} THEN i
        ELSE LET m == MaxOf(S \ {i}) IN IF i > m THEN i ELSE m

Range(s) == {s[i] : i \in 1..Len(s)}


\* ------------------------------------------------------------ configuration
ModeNormal == "normal"
ModeLeakThenTrap == "leak_then_trap"

\* movement_probability values: 0, 1/2 and 1
Probabilities == {Fix(0), Scale \div 2, Fix(1)}

\* process_noise_q values: 0 and the default 0.1
ProcessNoises == {Fix(0), Scale \div 10}

\* faulty variant of validate: the total capacity test is missing
validate_NoCapacityTest(c) ==
    /\ ~(c.num_shelves <= 0)
    /\ ~(c.shelf_capacity <= 0)
    /\ ~(c.total_items < 0)
    /\ 0 <= c.unobserved_shelf_id /\ c.unobserved_shelf_id < c.num_shelves
    /\ Fix(0) <= c.movement_probability /\ c.movement_probability <= Fix(1)
    /\ c.shelf_0_mode \in {ModeNormal, ModeLeakThenTrap}
    /\ ~(c.trap_start_step < 0)
    /\ ~(c.process_noise_q < Fix(0))

\* config.py SimulatorConfig.validate: TRUE iff no ValueError is raised
validate(c) ==
    /\ ~(c.num_shelves <= 0)
    /\ ~(c.shelf_capacity <= 0)
    /\ ~(c.total_items < 0)
    /\ ~(c.total_items > c.num_shelves * c.shelf_capacity)
    /\ 0 <= c.unobserved_shelf_id /\ c.unobserved_shelf_id < c.num_shelves
    /\ Fix(0) <= c.movement_probability /\ c.movement_probability <= Fix(1)
    /\ c.shelf_0_mode \in {ModeNormal, ModeLeakThenTrap}
    /\ ~(c.trap_start_step < 0)
    /\ ~(c.process_noise_q < Fix(0))

\* the fields of SimulatorConfig, over the bounded ranges
ConfigCandidates ==
    [num_shelves : 1..MaxShelves,
     shelf_capacity : 1..MaxCapacity,
     total_items : 0..MaxItems,
     unobserved_shelf_id : 0..(MaxShelves - 1),
     movement_probability : Probabilities,
     shelf_0_mode : {ModeNormal, ModeLeakThenTrap},
     trap_start_step : 0..MaxTrapStart,
     process_noise_q : ProcessNoises]

\* configurations a SimulationRunner can be constructed from; normal mode
\* never reads trap_start_step, so one value stands for all of them
Configs ==
    {c \in ConfigCandidates :
        /\ validate(c)
        /\ (c.shelf_0_mode = ModeNormal => c.trap_start_step = MaxTrapStart)}

\* the arguments a caller may pass to SimulatorConfig(...), valid or not
ConfigInputs ==
    [num_shelves : (-1)..MaxField,
     shelf_capacity : (-1)..MaxField,
     total_items : (-1)..(MaxField * MaxField + 1),
     unobserved_shelf_id : (-1)..MaxField,
     movement_probability : Probabilities \cup {-1, Fix(1) + 1},
     shelf_0_mode : {ModeNormal, ModeLeakThenTrap, "other"},
     trap_start_step : (-1)..MaxTrapStart,
     process_noise_q : ProcessNoises \cup {-1}]

\* SimulatorConfig.__post_init__: validate() returns and the object exists
PostInitReturns ==
    /\ pc = "construct"
    /\ validate(config)
    /\ pc' = "constructed"
    /\ UNCHANGED <<configVars, rngVars, callerVars, distVars, simVars, stepLocals, obsVars,
                   step, num_steps, report_interval, analytics_history,
                   events_log, results, error>>

\* SimulatorConfig.__post_init__: validate() raises ValueError
PostInitRaises ==
    /\ pc = "construct"
    /\ ~validate(config)
    /\ pc' = "raised"
    /\ error' = "ValueError"
    /\ UNCHANGED <<configVars, rngVars, callerVars, distVars, simVars, stepLocals, obsVars,
                   step, num_steps, report_interval, analytics_history,
                   events_log, results>>

Shelves == 0..(config.num_shelves - 1)

\* ------------------------------------------------------ random generators
\* "self._rng = np.random.default_rng(seed)" in Simulator.__init__
SimulatorGenerator == "Simulator._rng"

\* faulty variant of DistributionGenerator: the initial distribution draws
\* from the generator the Simulator owns
DistributionGenerator_Shared == "Simulator._rng"

\* "rng = np.random.default_rng(seed)" in distribute_items_randomly
DistributionGenerator == "distribute_items_randomly.rng"

\* the generators that have drawn when Simulator.__init__ returns: the
\* distribution draws at least once unless total_items == 0
DrawnFromAtConstruction(c) ==
    IF c.total_items = 0 THEN {} ELSE {DistributionGenerator}

\* ------------------------------------------- utils.distribute_items_randomly
\* arguments of distribute_items_randomly (the function validates nothing,
\* so infeasible totals are among its inputs)
DistArgs ==
    {c \in [num_shelves : 1..MaxShelves,
            shelf_capacity : 1..MaxCapacity,
            total_items : 0..(MaxShelves * MaxCapacity + 1),
            unobserved_shelf_id : {0},
            movement_probability : {Fix(0)},
            shelf_0_mode : {ModeNormal},
            trap_start_step : {0},
            process_noise_q : {Fix(0)}] :
        c.total_items <= c.num_shelves * c.shelf_capacity + 1}

max_attempts == config.total_items * AttemptsPerItem

\* rng.integers(0, num_shelves): any shelf index
RngIntegers(low, high) == low..(high - 1)

\* faulty variant of ShelfHasRoom: the capacity test is off by one
ShelfHasRoom_Inclusive(qty, capacity) == qty <= capacity

\* "if distribution[shelf_idx] < shelf_capacity"
ShelfHasRoom(qty, capacity) == qty < capacity

\* "while items_placed < total_items and attempts < max_attempts"
RandomLoopContinues == items_placed < config.total_items /\ attempts < max_attempts

\* distribution = [0] * num_shelves; "if total_items == 0: return distribution"
DistEnter ==
    /\ dist_pc = "start"
    /\ distribution' = [i \in Shelves |-> 0]
    /\ items_placed' = 0
    /\ attempts' = 0
    /\ dist_pc' = IF config.total_items = 0 THEN "returned" ELSE "random"
    /\ UNCHANGED <<shelf_idx, fallback_placed, configVars, rngVars, callerVars, simVars, stepLocals,
                   obsVars, runVars>>

\* one iteration of the random placement loop
DistRandomAttempt ==
    /\ dist_pc = "random"
    /\ RandomLoopContinues
    /\ \E idx \in RngIntegers(0, config.num_shelves) :
          /\ shelf_idx' = idx
          /\ IF ShelfHasRoom(distribution[idx], config.shelf_capacity)
             THEN /\ distribution' = [distribution EXCEPT ![idx] = @ + 1]
                  /\ items_placed' = items_placed + 1
             ELSE UNCHANGED <<distribution, items_placed>>
    /\ attempts' = attempts + 1
    /\ rng_used' = rng_used \cup {DistributionGenerator}
    /\ UNCHANGED <<dist_pc, fallback_placed, configVars, callerVars, simVars, stepLocals,
                   obsVars, runVars>>

\* the random loop ends: "if items_placed < total_items" chooses the fallback
DistRandomExit ==
    /\ dist_pc = "random"
    /\ ~RandomLoopContinues
    /\ IF items_placed < config.total_items
       THEN dist_pc' = "fallback" /\ shelf_idx' = 0
       ELSE dist_pc' = "returned" /\ shelf_idx' = shelf_idx
    /\ UNCHANGED <<distribution, items_placed, attempts, fallback_placed,
                   configVars, rngVars, callerVars, simVars, stepLocals, obsVars, runVars>>

\* faulty variant of FallbackLoopContinues: the fill ignores how many items remain
FallbackLoopContinues_Greedy ==
    ShelfHasRoom(distribution[shelf_idx], config.shelf_capacity)

\* "while distribution[shelf_idx] < shelf_capacity and items_placed < total_items"
FallbackLoopContinues ==
    /\ ShelfHasRoom(distribution[shelf_idx], config.shelf_capacity)
    /\ items_placed < config.total_items

\* one iteration of the inner while loop of the sequential fill
DistFallbackPlace ==
    /\ dist_pc = "fallback"
    /\ shelf_idx < config.num_shelves
    /\ FallbackLoopContinues
    /\ distribution' = [distribution EXCEPT ![shelf_idx] = @ + 1]
    /\ items_placed' = items_placed + 1
    /\ fallback_placed' = fallback_placed + 1
    /\ UNCHANGED <<dist_pc, attempts, shelf_idx,
                   configVars, rngVars, callerVars, simVars, stepLocals, obsVars, runVars>>

\* the inner loop ends: "if items_placed >= total_items: break", else next shelf
DistFallbackNext ==
    /\ dist_pc = "fallback"
    /\ shelf_idx < config.num_shelves
    /\ ~FallbackLoopContinues
    /\ IF items_placed >= config.total_items
       THEN dist_pc' = "returned" /\ shelf_idx' = shelf_idx
       ELSE dist_pc' = "fallback" /\ shelf_idx' = shelf_idx + 1
    /\ UNCHANGED <<distribution, items_placed, attempts, fallback_placed,
                   configVars, rngVars, callerVars, simVars, stepLocals, obsVars, runVars>>

\* the for loop over the shelves is exhausted: "return distribution"
DistFallbackEnd ==
    /\ dist_pc = "fallback"
    /\ shelf_idx = config.num_shelves
    /\ dist_pc' = "returned"
    /\ UNCHANGED <<distribution, items_placed, attempts, shelf_idx,
                   fallback_placed, configVars, rngVars, callerVars, simVars, stepLocals, obsVars, runVars>>


\* ------------------------------------------------------ utils.calculate_neighbor
Directions == {"left", "right"}

\* faulty variant of calculate_neighbor: the two directions are exchanged
calculate_neighbor_Mirrored(sid, n, direction) ==
    IF direction = "right" THEN (sid - 1) % n ELSE (sid + 1) % n

calculate_neighbor(sid, n, direction) ==
    IF direction = "right" THEN (sid + 1) % n ELSE (sid - 1) % n

\* ------------------------------------------------------------------ Simulator
\* the lists distribute_items_randomly returns for a feasible configuration:
\* length num_shelves, entries in 0..shelf_capacity, sum total_items
InitialDistributions(n, total, capacity) ==
    {d \in [0..(n - 1) -> 0..capacity] : SumTo(d, n) = total}

\* faulty variant of Binomial: the probability is ignored
Binomial_Any(n, p) == 0..n

\* faulty variant of Binomial: the draw may exceed the number of trials by one
Binomial_Overdrawn(n, p) == 0..(n + 1)

\* rng.binomial(n, p): the support of the binomial distribution
Binomial(n, p) ==
    IF p = Fix(0) THEN {0}
    ELSE IF p = Fix(1) THEN {n}
    ELSE 0..n

\* faulty variant of TrapActivates: the trap waits one tick too long
TrapActivates_Late ==
    /\ ~trap_active
    /\ config.shelf_0_mode = ModeLeakThenTrap
    /\ current_step > config.trap_start_step

\* the trap activation test at the head of step()
TrapActivates ==
    /\ ~trap_active
    /\ config.shelf_0_mode = ModeLeakThenTrap
    /\ current_step >= config.trap_start_step

\* faulty variant of SourceSkipped: the trapped shelf is never skipped
SourceSkipped_Never(sid, trap) == FALSE

\* "if shelf_id == 0 and self._trap_active: continue"
SourceSkipped(sid, trap) == sid = 0 /\ trap

\* faulty variant of DestinationHasRoom: the destination is never found full
DestinationHasRoom_Always(dest_qty, capacity) == TRUE

\* faulty variant of DestinationHasRoom: the capacity test is off by one
DestinationHasRoom_Inclusive(dest_qty, capacity) == dest_qty <= capacity

\* "if dest_qty < self.config.shelf_capacity"
DestinationHasRoom(dest_qty, capacity) == dest_qty < capacity

\* faulty variant of MoveItem: the item leaves the source and arrives nowhere
MoveItem_Lost(inv, src, dst) == [inv EXCEPT ![src] = @ - 1]

\* quantity[src] -= 1; quantity[dst] += 1
MoveItem(inv, src, dst) ==
    LET taken == [inv EXCEPT ![src] = @ - 1]
    IN  [taken EXCEPT ![dst] = @ + 1]

\* faulty variant of MovementEvent: the record carries the tick after the increment
MovementEvent_NextTick(t, src, dst, direction) ==
    [kind |-> "MovementEvent", step |-> t + 1, source_shelf |-> src,
     destination_shelf |-> dst, direction |-> direction]

MovementEvent(t, src, dst, direction) ==
    [kind |-> "MovementEvent", step |-> t, source_shelf |-> src,
     destination_shelf |-> dst, direction |-> direction]

\* the event step() returns
StepEvent ==
    IF total_movements > 0
    THEN MovementEvent(current_step, last_source, last_dest, last_direction)
    ELSE MovementEvent(current_step, 0, 0, "right")

\* values of step()'s locals outside a call
NoStepLocals ==
    /\ initial_quantities = << >>
    /\ shelf_id = 0
    /\ num_items_to_move = 0
    /\ item_index = 0
    /\ total_movements = 0
    /\ last_source = 0
    /\ last_dest = 0
    /\ last_direction = "right"

\* run() calls simulator.step(): trap activation, locals, snapshot
StepBegin ==
    /\ pc = "loop"
    /\ step < num_steps
    /\ trap_active' = (trap_active \/ TrapActivates)
    /\ total_movements' = 0
    /\ last_source' = 0
    /\ last_dest' = 0
    /\ last_direction' = "right"
    /\ initial_quantities' = inventory
    /\ shelf_id' = 0
    /\ num_items_to_move' = 0
    /\ item_index' = 0
    /\ pc' = "step_shelf"
    /\ UNCHANGED <<inventory, current_step, configVars, rngVars, callerVars, distVars, obsVars,
                   step, num_steps, report_interval, analytics_history,
                   events_log, results, error>>

\* faulty variant of initial_qty: the live quantity is read instead of the snapshot
initial_qty_Live == inventory[shelf_id]

\* "initial_qty = initial_quantities.iloc[shelf_id]"
initial_qty == initial_quantities[shelf_id]

\* head of one iteration of "for shelf_id in range(num_shelves)": the three
\* "continue" tests and the binomial draw
StepShelf ==
    /\ pc = "step_shelf"
    /\ shelf_id < config.num_shelves
    /\ IF SourceSkipped(shelf_id, trap_active) \/ initial_qty = 0
       THEN /\ shelf_id' = shelf_id + 1
            /\ UNCHANGED <<num_items_to_move, item_index, pc, rng_used>>
       ELSE \E k \in Binomial(initial_qty, config.movement_probability) :
               /\ rng_used' = rng_used \cup {SimulatorGenerator}
               /\ num_items_to_move' = k
               /\ item_index' = 0
               /\ IF k = 0
                  THEN shelf_id' = shelf_id + 1 /\ pc' = pc
                  ELSE shelf_id' = shelf_id /\ pc' = "step_item"
    /\ UNCHANGED <<initial_quantities, total_movements, last_source, last_dest,
                   last_direction, simVars, configVars, callerVars, distVars, obsVars,
                   step, num_steps, report_interval, analytics_history,
                   events_log, results, error>>

\* one iteration of "for _ in range(num_items_to_move)"
StepItem ==
    /\ pc = "step_item"
    /\ IF inventory[shelf_id] = 0
       THEN \* "break"
            /\ shelf_id' = shelf_id + 1
            /\ item_index' = 0
            /\ pc' = "step_shelf"
            /\ UNCHANGED <<inventory, total_movements, last_source, last_dest,
                           last_direction, rng_used>>
       ELSE \E direction \in Directions :
               LET dest_shelf_id ==
                       calculate_neighbor(shelf_id, config.num_shelves, direction)
                   dest_qty == inventory[dest_shelf_id]
               IN  /\ rng_used' = rng_used \cup {SimulatorGenerator}
                   /\ IF DestinationHasRoom(dest_qty, config.shelf_capacity)
                      THEN /\ inventory' = MoveItem(inventory, shelf_id, dest_shelf_id)
                           /\ total_movements' = total_movements + 1
                           /\ last_source' = shelf_id
                           /\ last_dest' = dest_shelf_id
                           /\ last_direction' = direction
                      ELSE UNCHANGED <<inventory, total_movements, last_source,
                                       last_dest, last_direction>>
                   /\ IF item_index + 1 < num_items_to_move
                      THEN /\ item_index' = item_index + 1
                           /\ shelf_id' = shelf_id
                           /\ pc' = pc
                      ELSE /\ item_index' = 0
                           /\ shelf_id' = shelf_id + 1
                           /\ pc' = "step_shelf"
    /\ UNCHANGED <<initial_quantities, num_items_to_move, current_step,
                   trap_active, configVars, callerVars, distVars, obsVars,
                   step, num_steps, report_interval, analytics_history,
                   events_log, results, error>>

\* the shelf loop is over: step() builds its event, advances the counter and
\* returns; run() appends the event to its log
StepReturn ==
    /\ pc = "step_shelf"
    /\ shelf_id = config.num_shelves
    /\ events_log' = Append(events_log, StepEvent)
    /\ current_step' = current_step + 1
    /\ initial_quantities' = << >>
    /\ shelf_id' = 0
    /\ num_items_to_move' = 0
    /\ item_index' = 0
    /\ total_movements' = 0
    /\ last_source' = 0
    /\ last_dest' = 0
    /\ last_direction' = "right"
    /\ pc' = "observe"
    /\ UNCHANGED <<inventory, trap_active, configVars, rngVars, callerVars, distVars, obsVars,
                   step, num_steps, report_interval, analytics_history,
                   results, error>>

\* faulty variant of get_quantity: the quantity of shelf 0 is returned for every shelf
get_quantity_ShelfZero(sid) == inventory[0]

\* Simulator.get_quantity
get_quantity(sid) == inventory[sid]

\* Simulator.get_state: a copy of the inventory table
get_state == inventory


\* ------------------------------------------------------------------- Observer
RECURSIVE AscendingFrom(_, _, _)
\* [shelf_id for shelf_id in range(lo, n) if shelf_id != hidden]
AscendingFrom(lo, n, hidden) ==
    IF lo >= n THEN << >>
    ELSE IF lo = hidden THEN AscendingFrom(lo + 1, n, hidden)
    ELSE <<lo>> \o AscendingFrom(lo + 1, n, hidden)

\* faulty variant of ObservableShelves: shelf 0 is skipped whatever the
\* configured hidden shelf is
ObservableShelves_SkipZero(c) == AscendingFrom(1, c.num_shelves, c.num_shelves)

\* self._observable_shelves
ObservableShelves(c) == AscendingFrom(0, c.num_shelves, c.unobserved_shelf_id)

\* shelf_ids_to_track
ShelfIdsToTrack(c) ==
    IF c.unobserved_shelf_id = 0
    THEN AscendingFrom(1, c.num_shelves, c.num_shelves)
    ELSE AscendingFrom(0, c.num_shelves, c.unobserved_shelf_id)

\* faulty variant of InitialEstimates: a shelf never observed counts as seen at tick 0
InitialEstimates_SeenAtZero(c) ==
    [sid \in Range(ShelfIdsToTrack(c)) |->
        [estimated_quantity |-> 0, last_observed_step |-> 0, uncertainty |-> 0]]

\* self._estimates: one row per tracked shelf id
InitialEstimates(c) ==
    [sid \in Range(ShelfIdsToTrack(c)) |->
        [estimated_quantity |-> 0, last_observed_step |-> -1, uncertainty |-> 0]]

\* faulty variant of ObservedRow: the observed quantity is not stored
ObservedRow_Forgetful(true_quantity, t) ==
    [estimated_quantity |-> 0, last_observed_step |-> t, uncertainty |-> 0]

\* faulty variant of ObservedRow: twice the observed quantity is stored
ObservedRow_Doubled(true_quantity, t) ==
    [estimated_quantity |-> 2 * true_quantity, last_observed_step |-> t, uncertainty |-> 0]

\* the row of the observed shelf after the three assignments
ObservedRow(true_quantity, t) ==
    [estimated_quantity |-> true_quantity, last_observed_step |-> t, uncertainty |-> 0]

\* faulty variant of StaleRow: the staleness of the other shelves is not advanced
StaleRow_Same(row) == row

\* the row of a shelf that is not the observed one
StaleRow(row) == [row EXCEPT !.uncertainty = @ + 1]

\* the belief table after lines 99-109 of observe()
UpdatedEstimates(est, observed_shelf_id, true_quantity, t) ==
    [sid \in DOMAIN est |->
        IF sid = observed_shelf_id THEN ObservedRow(true_quantity, t)
        ELSE StaleRow(est[sid])]

\* faulty variant of NextObservationIndex: the cursor never advances
NextObservationIndex_Stuck(index, len) == index

\* faulty variant of NextObservationIndex: the cursor advances by two
NextObservationIndex_Skipping(index, len) == (index + 2) % len

\* "(self._current_observation_index + 1) % len(self._observable_shelves)"
NextObservationIndex(index, len) == (index + 1) % len

\* faulty variant of ObservationEvent: true quantity and previous estimate are
\* passed in each other's place
ObservationEvent_Swapped(t, observed, true_quantity, previous) ==
    [kind |-> "ObservationEvent", step |-> t, observed_shelf |-> observed,
     true_quantity |-> previous, previous_estimate |-> true_quantity]

ObservationEvent(t, observed, true_quantity, previous) ==
    [kind |-> "ObservationEvent", step |-> t, observed_shelf |-> observed,
     true_quantity |-> true_quantity, previous_estimate |-> previous]

\* Kalman filter, lines 111-127 of observe()
EstimatedSum(est) == SumOver([sid \in DOMAIN est |-> est[sid].estimated_quantity], DOMAIN est)

UncertaintySum(est) == SumOver([sid \in DOMAIN est |-> est[sid].uncertainty], DOMAIN est)

\* faulty variant of PPred: the predict step adds no process noise
PPred_NoNoise(P, Q) == P

\* P_pred = P + Q
PPred(P, Q) == P + Q

\* R = 10.0 + 0.5 * sum(uncertainty)
MeasurementNoise(est) == Fix(BaseNoise) + FixMul(Scale \div 2, Fix(UncertaintySum(est)))

\* S = P_pred + R
InnovationCovariance(P, Q, est) == PPred(P, Q) + MeasurementNoise(est)

\* faulty variant of KalmanGain: the quotient is taken the wrong way round
KalmanGain_Inverted(P, Q, est) == FixDiv(InnovationCovariance(P, Q, est), PPred(P, Q))

\* K = P_pred / S
KalmanGain(P, Q, est) == FixDiv(PPred(P, Q), InnovationCovariance(P, Q, est))

\* x = x_pred + K * (z - x_pred)
UpdatedState(x, P, Q, est) ==
    x + FixMul(KalmanGain(P, Q, est), Fix(EstimatedSum(est)) - x)

\* P = (1 - K) * P_pred
UpdatedCovariance(P, Q, est) ==
    FixMul(Fix(1) - KalmanGain(P, Q, est), PPred(P, Q))

\* "self._observable_shelves[self._current_observation_index]" raises
\* IndexError when the list is empty
ObserveRaises == current_observation_index >= Len(observable_shelves)

\* faulty variant of QuantitiesRead: observe() asks for every shelf
QuantitiesRead_All(observed_shelf_id) == Shelves

\* "true_quantity = simulator.get_quantity(observed_shelf_id)": the shelves
\* one observe() asks the simulator for
QuantitiesRead(observed_shelf_id) == {observed_shelf_id}

\* run() calls observer.observe(simulator, step) and appends its event
Observe ==
    /\ pc = "observe"
    /\ IF ObserveRaises
       THEN /\ pc' = "raised"
            /\ error' = "IndexError"
            /\ UNCHANGED <<obsVars, events_log>>
       ELSE LET observed_shelf_id == observable_shelves[current_observation_index + 1]
                true_quantity == get_quantity(observed_shelf_id)
                previous_estimate == estimates[observed_shelf_id].estimated_quantity
                updated == UpdatedEstimates(estimates, observed_shelf_id,
                                            true_quantity, step)
            IN  /\ get_quantity_calls' =
                       get_quantity_calls \cup QuantitiesRead(observed_shelf_id)
                /\ estimates' = updated
                /\ kf_state' = UpdatedState(kf_state, kf_covariance,
                                            kf_process_noise, updated)
                /\ kf_covariance' = UpdatedCovariance(kf_covariance,
                                                      kf_process_noise, updated)
                /\ current_observation_index' =
                       NextObservationIndex(current_observation_index,
                                            Len(observable_shelves))
                /\ events_log' = Append(events_log,
                       ObservationEvent(step, observed_shelf_id, true_quantity,
                                        previous_estimate))
                /\ pc' = "report"
                /\ error' = error
                /\ UNCHANGED <<observable_shelves, kf_process_noise>>
    /\ UNCHANGED <<configVars, rngVars, callerVars, distVars, simVars, stepLocals,
                   step, num_steps, report_interval, analytics_history, results>>

\* Observer.get_estimates: a copy of the belief table
get_estimates == estimates

\* Observer.get_estimated_total
get_estimated_total == kf_state

\* Observer.get_total_uncertainty
get_total_uncertainty == kf_covariance


\* ------------------------------------------------------------------ Analytics
\* Analytics.calculate_total_error
calculate_total_error(true_total, estimated_total) ==
    Abs(estimated_total - Fix(true_total))

\* Analytics.calculate_total_error_percentage
calculate_total_error_percentage(true_total, estimated_total) ==
    IF true_total = 0
    THEN (IF estimated_total = Fix(0) THEN Fix(0) ELSE Fix(100))
    ELSE FixMul(FixDiv(Abs(estimated_total - Fix(true_total)), Fix(true_total)),
                Fix(100))

\* Analytics.calculate_mae: mean absolute error over the observed rows
calculate_mae(ground_truth, est) ==
    LET observed == {sid \in DOMAIN est : est[sid].last_observed_step >= 0}
        merged == observed \cap DOMAIN ground_truth
        errors == [sid \in merged |-> Abs(est[sid].estimated_quantity - ground_truth[sid])]
    IN  IF observed = {} THEN Fix(0)
        ELSE FixDiv(Fix(SumOver(errors, merged)), Fix(Cardinality(merged)))

\* "estimates.loc[label, ...]": the estimates table has the default index
\* 0..M-1 over the rows of shelf_ids_to_track, so label selects the row at
\* that position; a label outside the index raises KeyError
EstimatesRowByLabel(c, label) ==
    IF 0 <= label /\ label < Len(ShelfIdsToTrack(c))
    THEN [error |-> "none", shelf_id |-> ShelfIdsToTrack(c)[label + 1]]
    ELSE [error |-> "KeyError", shelf_id |-> -1]

\* Analytics.calculate_shelf_error: both tables are indexed with .loc[shelf_id]
calculate_shelf_error(ground_truth, est, sid) ==
    LET row == EstimatesRowByLabel(config, sid)
    IN  IF sid \notin DOMAIN ground_truth \/ row.error # "none"
        THEN [error |-> "KeyError", value |-> 0]
        ELSE [error |-> "none",
              value |-> est[row.shelf_id].estimated_quantity - ground_truth[sid]]

\* Analytics.calculate_items_on_shelf_0
calculate_items_on_shelf_0(ground_truth) ==
    IF 0 \in DOMAIN ground_truth THEN ground_truth[0] ELSE 0

\* "int(estimates['uncertainty'].max())": the maximum of an empty column is
\* NaN, and int(NaN) raises ValueError
ReportRaises(est) == DOMAIN est = {}

\* faulty variant of observed_shelves_truth: no shelf is left out
observed_shelves_truth_All(ground_truth) == DOMAIN ground_truth

\* "ground_truth[ground_truth['shelf_id'] != 0]": the rows summed into true_total
observed_shelves_truth(ground_truth) == DOMAIN ground_truth \ {0}

\* Analytics.generate_report, with the 'step' key _collect_analytics adds
generate_report(ground_truth, est, estimated_total, total_uncertainty, t) ==
    LET true_total_system == SumOver(ground_truth, DOMAIN ground_truth)
        true_total_observed ==
            SumOver(ground_truth, observed_shelves_truth(ground_truth))
    IN  [true_total |-> true_total_observed,
         true_total_system |-> true_total_system,
         items_on_shelf_0 |-> calculate_items_on_shelf_0(ground_truth),
         estimated_total |-> estimated_total,
         total_error |-> calculate_total_error(true_total_observed, estimated_total),
         total_error_pct |->
             calculate_total_error_percentage(true_total_observed, estimated_total),
         kalman_uncertainty |-> total_uncertainty,
         mae |-> calculate_mae(ground_truth, est),
         max_shelf_uncertainty |->
             MaxOf({est[sid].uncertainty : sid \in DOMAIN est}),
         step |-> t]

\* SimulationRunner._collect_analytics
collect_analytics(t) ==
    generate_report(get_state, get_estimates, get_estimated_total,
                    get_total_uncertainty, t)

\* ----------------------------------------------------------- SimulationRunner
SimulationResults ==
    [config |-> config,
     final_ground_truth |-> get_state,
     final_estimates |-> get_estimates,
     analytics_history |-> analytics_history,
     events_log |-> events_log]

NoResults == [config |-> "none"]

\* faulty variant of ReportDue: the interval test uses the 0-based loop index
ReportDue_ZeroBased(t, interval) == t % interval = 0

\* "if (step + 1) % report_interval == 0"
ReportDue(t, interval) == (t + 1) % interval = 0

\* a caller invokes run(num_steps, report_interval) on a fresh runner
RunStart ==
    /\ pc = "idle"
    /\ results = NoResults
    /\ \E n \in 0..(MaxSteps - current_step), r \in 1..MaxInterval :
          /\ num_steps' = n
          /\ report_interval' = r
    /\ analytics_history' = << >>
    /\ events_log' = << >>
    /\ step' = 0
    /\ pc' = "initial_analytics"
    /\ UNCHANGED <<configVars, rngVars, callerVars, distVars, simVars, stepLocals, obsVars,
                   results, error>>

\* "analytics_history.append(self._collect_analytics(step=0))"
RunInitialAnalytics ==
    /\ pc = "initial_analytics"
    /\ IF ReportRaises(get_estimates)
       THEN /\ pc' = "raised"
            /\ error' = "ValueError"
            /\ UNCHANGED analytics_history
       ELSE /\ analytics_history' = Append(analytics_history, collect_analytics(0))
            /\ pc' = "loop"
            /\ error' = error
    /\ UNCHANGED <<configVars, rngVars, callerVars, distVars, simVars, stepLocals, obsVars,
                   step, num_steps, report_interval, events_log, results>>

\* "3. Collect analytics at intervals", then the next iteration of the loop
RunReport ==
    /\ pc = "report"
    /\ IF ReportDue(step, report_interval)
       THEN IF ReportRaises(get_estimates)
            THEN /\ pc' = "raised"
                 /\ error' = "ValueError"
                 /\ UNCHANGED <<analytics_history, step>>
            ELSE /\ analytics_history' =
                        Append(analytics_history, collect_analytics(step + 1))
                 /\ step' = step + 1
                 /\ pc' = "loop"
                 /\ error' = error
       ELSE /\ step' = step + 1
            /\ pc' = "loop"
            /\ UNCHANGED <<analytics_history, error>>
    /\ UNCHANGED <<configVars, rngVars, callerVars, distVars, simVars, stepLocals, obsVars,
                   num_steps, report_interval, events_log, results>>

\* the loop is over: "return SimulationResults(...)"
RunReturn ==
    /\ pc = "loop"
    /\ step = num_steps
    /\ results' = SimulationResults
    /\ pc' = "idle"
    /\ analytics_history' = << >>
    /\ events_log' = << >>
    /\ step' = 0
    /\ UNCHANGED <<configVars, rngVars, callerVars, distVars, simVars, stepLocals, obsVars,
                   num_steps, report_interval, error>>

\* ------------------------------------------- get_state / get_estimates callers
\* the value a caller writes into a cell of a DataFrame it was handed
CallerValues == {MaxCapacity + 1}

\* faulty variant of DataFrameCopy: the caller is handed the internal object
DataFrameCopy_Alias(owner, table) ==
    [owner |-> owner, shared |-> TRUE, table |-> table]

\* "return self._inventory.copy()", "return self._estimates.copy()": a new
\* object with the cells of the internal one
DataFrameCopy(owner, table) ==
    [owner |-> owner, shared |-> FALSE, table |-> table]

\* the 'quantity' cells, or the 'estimated_quantity' cells, after a write
WriteCell(owner, table, sid, v) ==
    IF owner = "simulator" THEN [table EXCEPT ![sid] = v]
    ELSE [table EXCEPT ![sid].estimated_quantity = v]

\* a caller calls simulator.get_state()
CallerGetState ==
    /\ pc = "idle"
    /\ Len(handles) < MaxHandles
    /\ handles' = Append(handles, DataFrameCopy("simulator", get_state))
    /\ UNCHANGED <<configVars, rngVars, distVars, simVars, stepLocals, obsVars, runVars>>

\* a caller calls observer.get_estimates()
CallerGetEstimates ==
    /\ pc = "idle"
    /\ Len(handles) < MaxHandles
    /\ handles' = Append(handles, DataFrameCopy("observer", get_estimates))
    /\ UNCHANGED <<configVars, rngVars, distVars, simVars, stepLocals, obsVars, runVars>>

\* a caller assigns to a cell of a DataFrame it holds: the write lands in the
\* object the handle refers to
CallerWrite ==
    /\ pc = "idle"
    /\ \E h \in 1..Len(handles) :
         \E sid \in DOMAIN handles[h].table, v \in CallerValues :
            IF handles[h].shared
            THEN /\ IF handles[h].owner = "simulator"
                    THEN /\ inventory' = WriteCell("simulator", inventory, sid, v)
                         /\ UNCHANGED estimates
                    ELSE /\ estimates' = WriteCell("observer", estimates, sid, v)
                         /\ UNCHANGED inventory
                 /\ UNCHANGED handles
            ELSE /\ handles' = [handles EXCEPT ![h].table =
                                   WriteCell(handles[h].owner, @, sid, v)]
                 /\ UNCHANGED <<inventory, estimates>>
    /\ UNCHANGED <<configVars, rngVars, distVars, current_step, trap_active, stepLocals,
                   observable_shelves, current_observation_index, kf_state,
                   kf_covariance, kf_process_noise, get_quantity_calls, runVars>>

\* a caller invokes run() again on a runner whose earlier run() has returned:
\* the simulator and observer continue from where that run left them
RunAgain ==
    /\ pc = "idle"
    /\ results # NoResults
    /\ current_step < MaxSteps
    /\ \E n \in 0..(MaxSteps - current_step), r \in 1..MaxInterval :
          /\ num_steps' = n
          /\ report_interval' = r
    /\ analytics_history' = << >>
    /\ events_log' = << >>
    /\ step' = 0
    /\ pc' = "initial_analytics"
    /\ UNCHANGED <<configVars, rngVars, callerVars, distVars, simVars, stepLocals,
                   obsVars, results, error>>

\* ------------------------------------------------ direct callers of observe()
\* configurations of an observer that is driven directly, over a static
\* simulator: up to MaxObserverShelves shelves, any hidden shelf
ObserverConfigs ==
    {c \in [num_shelves : 1..MaxObserverShelves,
            shelf_capacity : {1},
            total_items : 0..1,
            unobserved_shelf_id : 0..(MaxObserverShelves - 1),
            movement_probability : {Fix(0)},
            shelf_0_mode : {ModeNormal},
            trap_start_step : {0},
            process_noise_q : ProcessNoises] : validate(c)}

\* a caller invokes observer.observe(simulator, current_step), numbering its
\* calls from 0
ObserveCall ==
    /\ pc = "idle"
    /\ Len(events_log) < MaxObservations
    /\ step' = Len(events_log)
    /\ pc' = "observe"
    /\ UNCHANGED <<configVars, rngVars, callerVars, distVars, simVars, stepLocals,
                   obsVars, num_steps, report_interval, analytics_history,
                   events_log, results, error>>

\* observe() has returned its event to the caller
ObserveReturn ==
    /\ pc = "report"
    /\ pc' = "idle"
    /\ UNCHANGED <<configVars, rngVars, callerVars, distVars, simVars, stepLocals,
                   obsVars, step, num_steps, report_interval, analytics_history,
                   events_log, results, error>>

\* ---------------------------------------------------- direct callers of step()
\* configurations of a simulator that is stepped directly; the observer plays
\* no part, so one hidden shelf and one process noise stand for all of them
StepperConfigs ==
    {c \in Configs : c.unobserved_shelf_id = 0 /\ c.process_noise_q = Fix(0)}

\* step() has returned its event; the caller's loop goes on to the next call
StepperAdvance ==
    /\ pc = "observe"
    /\ step' = step + 1
    /\ pc' = "loop"
    /\ UNCHANGED <<configVars, rngVars, callerVars, distVars, simVars, stepLocals,
                   obsVars, num_steps, report_interval, analytics_history,
                   events_log, results, error>>

\* ------------------------------------------------------------- specifications
\* SimulationRunner.__init__: Simulator(config, seed) and Observer(config)
Init ==
    /\ config \in Configs
    /\ dist_pc = "returned"
    /\ distribution = << >>
    /\ items_placed = 0
    /\ attempts = 0
    /\ shelf_idx = 0
    /\ fallback_placed = 0
    /\ inventory \in InitialDistributions(config.num_shelves, config.total_items,
                                          config.shelf_capacity)
    /\ current_step = 0
    /\ trap_active = FALSE
    /\ NoStepLocals
    /\ observable_shelves = ObservableShelves(config)
    /\ estimates = InitialEstimates(config)
    /\ current_observation_index = 0
    /\ kf_state = Fix(0)
    /\ kf_covariance = Fix(InitialCovariance)
    /\ kf_process_noise = config.process_noise_q
    /\ get_quantity_calls = {}
    /\ pc = "idle"
    /\ step = 0
    /\ num_steps = 0
    /\ report_interval = 1
    /\ analytics_history = << >>
    /\ events_log = << >>
    /\ results = NoResults
    /\ error = "none"
    /\ handles = << >>
    /\ rng_used = DrawnFromAtConstruction(config)

Next ==
    \/ RunStart
    \/ RunInitialAnalytics
    \/ StepBegin
    \/ StepShelf
    \/ StepItem
    \/ StepReturn
    \/ Observe
    \/ RunReport
    \/ RunReturn

Spec == Init /\ [][Next]_vars

\* a call of distribute_items_randomly(num_shelves, total_items, shelf_capacity)
DistInit ==
    /\ config \in DistArgs
    /\ dist_pc = "start"
    /\ distribution = << >>
    /\ items_placed = 0
    /\ attempts = 0
    /\ shelf_idx = 0
    /\ fallback_placed = 0
    /\ inventory = << >>
    /\ current_step = 0
    /\ trap_active = FALSE
    /\ NoStepLocals
    /\ observable_shelves = << >>
    /\ estimates = << >>
    /\ current_observation_index = 0
    /\ kf_state = Fix(0)
    /\ kf_covariance = Fix(InitialCovariance)
    /\ kf_process_noise = Fix(0)
    /\ get_quantity_calls = {}
    /\ pc = "distribute"
    /\ step = 0
    /\ num_steps = 0
    /\ report_interval = 1
    /\ analytics_history = << >>
    /\ events_log = << >>
    /\ results = NoResults
    /\ error = "none"
    /\ handles = << >>
    /\ rng_used = {}

DistNext ==
    \/ DistEnter
    \/ DistRandomAttempt
    \/ DistRandomExit
    \/ DistFallbackPlace
    \/ DistFallbackNext
    \/ DistFallbackEnd

SpecDist == DistInit /\ [][DistNext]_vars


\* the call runs to completion: a sequential function keeps executing
SpecDistFair == SpecDist /\ WF_vars(DistNext)

\* a caller is about to construct a SimulatorConfig from its arguments
ConfigInit ==
    /\ config \in ConfigInputs
    /\ dist_pc = "idle"
    /\ distribution = << >>
    /\ items_placed = 0
    /\ attempts = 0
    /\ shelf_idx = 0
    /\ fallback_placed = 0
    /\ inventory = << >>
    /\ current_step = 0
    /\ trap_active = FALSE
    /\ NoStepLocals
    /\ observable_shelves = << >>
    /\ estimates = << >>
    /\ current_observation_index = 0
    /\ kf_state = Fix(0)
    /\ kf_covariance = Fix(InitialCovariance)
    /\ kf_process_noise = Fix(0)
    /\ get_quantity_calls = {}
    /\ pc = "construct"
    /\ step = 0
    /\ num_steps = 0
    /\ report_interval = 1
    /\ analytics_history = << >>
    /\ events_log = << >>
    /\ results = NoResults
    /\ error = "none"
    /\ handles = << >>
    /\ rng_used = {}

ConfigNext ==
    \/ PostInitReturns
    \/ PostInitRaises

SpecConfig == ConfigInit /\ [][ConfigNext]_vars

CopyNext ==
    \/ CallerGetState
    \/ CallerGetEstimates
    \/ CallerWrite

\* callers of the two getters on a constructed simulator and observer
SpecCopy == Init /\ [][CopyNext]_vars

RerunNext ==
    \/ Next
    \/ RunAgain

\* runners on which run() may be called more than once
SpecRerun == Init /\ [][RerunNext]_vars

\* Simulator(config, seed) and Observer(config), constructed by a direct caller
ObserverInit ==
    /\ config \in ObserverConfigs
    /\ dist_pc = "returned"
    /\ distribution = << >>
    /\ items_placed = 0
    /\ attempts = 0
    /\ shelf_idx = 0
    /\ fallback_placed = 0
    /\ inventory \in InitialDistributions(config.num_shelves, config.total_items,
                                          config.shelf_capacity)
    /\ current_step = 0
    /\ trap_active = FALSE
    /\ NoStepLocals
    /\ observable_shelves = ObservableShelves(config)
    /\ estimates = InitialEstimates(config)
    /\ current_observation_index = 0
    /\ kf_state = Fix(0)
    /\ kf_covariance = Fix(InitialCovariance)
    /\ kf_process_noise = config.process_noise_q
    /\ get_quantity_calls = {}
    /\ pc = "idle"
    /\ step = 0
    /\ num_steps = 0
    /\ report_interval = 1
    /\ analytics_history = << >>
    /\ events_log = << >>
    /\ results = NoResults
    /\ error = "none"
    /\ handles = << >>
    /\ rng_used = DrawnFromAtConstruction(config)

ObserverNext ==
    \/ ObserveCall
    \/ Observe
    \/ ObserveReturn

\* an observer driven by direct observe() calls
SpecObserver == ObserverInit /\ [][ObserverNext]_vars

\* Simulator(config, seed), about to be stepped MaxSteps times by its caller
StepperInit ==
    /\ config \in StepperConfigs
    /\ dist_pc = "returned"
    /\ distribution = << >>
    /\ items_placed = 0
    /\ attempts = 0
    /\ shelf_idx = 0
    /\ fallback_placed = 0
    /\ inventory \in InitialDistributions(config.num_shelves, config.total_items,
                                          config.shelf_capacity)
    /\ current_step = 0
    /\ trap_active = FALSE
    /\ NoStepLocals
    /\ observable_shelves = ObservableShelves(config)
    /\ estimates = InitialEstimates(config)
    /\ current_observation_index = 0
    /\ kf_state = Fix(0)
    /\ kf_covariance = Fix(InitialCovariance)
    /\ kf_process_noise = config.process_noise_q
    /\ get_quantity_calls = {}
    /\ pc = "loop"
    /\ step = 0
    /\ num_steps = MaxSteps
    /\ report_interval = 1
    /\ analytics_history = << >>
    /\ events_log = << >>
    /\ results = NoResults
    /\ error = "none"
    /\ handles = << >>
    /\ rng_used = DrawnFromAtConstruction(config)

StepperNext ==
    \/ StepBegin
    \/ StepShelf
    \/ StepItem
    \/ StepReturn
    \/ StepperAdvance

\* a simulator driven by direct step() calls
SpecStepper == StepperInit /\ [][StepperNext]_vars

\* --------------------------------------------------------------- properties
\* positions inside Simulator.step()
InStep == pc \in {"step_shelf", "step_item"}

\* step() has processed every shelf and is about to return
AtStepEnd == pc = "step_shelf" /\ shelf_id = config.num_shelves

\* the shelves other than the configured hidden one
NonHidden == Shelves \ {config.unobserved_shelf_id}

\* the event log of the run: the one being built, or the one returned
RunLog == IF results # NoResults THEN results.events_log ELSE events_log

ObservationsLogged ==
    {i \in 1..Len(RunLog) : RunLog[i].kind = "ObservationEvent"}

\* C1: after construction, after every step() and after every single move, in
\* both modes, before and after trap activation, the quantities of all the
\* shelves sum to the configured total_items.
C1_Conservation == SumTo(inventory, config.num_shelves) = config.total_items

\* C1 witness: two items have moved within one tick while the trap is active
C1_Witness ==
    /\ InStep
    /\ trap_active
    /\ total_movements >= 2
    /\ inventory # initial_quantities

\* C2: after construction, after every step() and after every single-item
\* move inside a step, every shelf holds between 0 and shelf_capacity items.
C2_Capacity ==
    \A s \in Shelves : 0 <= inventory[s] /\ inventory[s] <= config.shelf_capacity

\* C2 witness: a move has just filled its destination to capacity while
\* another shelf has been emptied
C2_Witness ==
    /\ InStep
    /\ config.num_shelves >= 3
    /\ total_movements > 0
    /\ inventory[last_dest] = config.shelf_capacity
    /\ inventory[last_source] = 0

\* a step() executed at a tick >= trap_start_step in leak_then_trap mode is
\* about to return
AtActivatedStepEnd ==
    /\ AtStepEnd
    /\ config.shelf_0_mode = ModeLeakThenTrap
    /\ current_step >= config.trap_start_step

\* C3 (as claimed): in leak_then_trap mode, for any hidden-shelf id, the
\* hidden shelf's quantity after a step() executed at tick >= trap_start_step
\* is at least its quantity before that step.
C3_HiddenShelfNonDecreasing ==
    AtActivatedStepEnd =>
        inventory[config.unobserved_shelf_id]
            >= initial_quantities[config.unobserved_shelf_id]

\* C3 (amended): in leak_then_trap mode it is shelf 0, whatever the hidden
\* shelf id is, whose quantity after a step() executed at tick >=
\* trap_start_step is at least its quantity before that step.
C3_ShelfZeroNonDecreasing ==
    AtActivatedStepEnd => inventory[0] >= initial_quantities[0]

\* C3 witness: with a hidden shelf other than 0, shelf 0 has gained an item
\* in a step executed after activation
C3_Witness ==
    /\ AtActivatedStepEnd
    /\ config.unobserved_shelf_id # 0
    /\ inventory[0] > initial_quantities[0]

\* C4: on a fresh observer the k-th observe() call (k = 0, 1, ...) observes
\* the (k mod M)-th smallest of the M non-hidden shelf ids, and the cursor
\* stands at the number of calls made so far modulo M.
C4_RoundRobin ==
    LET M == Cardinality(NonHidden)
    IN  /\ \A i \in ObservationsLogged :
              LET e == RunLog[i]
              IN  /\ e.observed_shelf \in NonHidden
                  /\ Cardinality({x \in NonHidden : x < e.observed_shelf}) = e.step % M
        /\ M > 0 =>
              current_observation_index = Cardinality(ObservationsLogged) % M

\* C4 witness: with hidden shelf 1 of 3 the third observation returns to the
\* shelf of the first one, after the other shelf was observed in between
C4_Witness ==
    /\ config.num_shelves = 3
    /\ config.unobserved_shelf_id = 1
    /\ Len(RunLog) >= 6
    /\ RunLog[2].observed_shelf = 0
    /\ RunLog[4].observed_shelf = 2
    /\ RunLog[6].observed_shelf = 0

\* C5: the observer never inspects or tracks the hidden shelf: it is not in
\* the schedule, no observation event names it, get_quantity is never called
\* for it, and the belief table (also the one a finished run returns) has
\* exactly one row per non-hidden shelf.
C5_HiddenNeverObserved ==
    /\ config.unobserved_shelf_id \notin Range(observable_shelves)
    /\ config.unobserved_shelf_id \notin get_quantity_calls
    /\ \A i \in ObservationsLogged :
          RunLog[i].observed_shelf # config.unobserved_shelf_id
    /\ DOMAIN get_estimates = NonHidden
    /\ results # NoResults => DOMAIN results.final_estimates = NonHidden

\* C5 witness: with a hidden shelf other than 0, every other shelf of a
\* three-shelf system has been inspected
C5_Witness ==
    /\ config.num_shelves = 3
    /\ config.unobserved_shelf_id # 0
    /\ get_quantity_calls = NonHidden

\* C6: an observe() call sets the staleness of the observed shelf to 0 and
\* adds exactly 1 to the staleness of every other tracked shelf; no other
\* operation changes any staleness.
C6_StalenessDynamics ==
    [][/\ DOMAIN estimates' = DOMAIN estimates
       /\ \A sid \in DOMAIN estimates :
             estimates'[sid].uncertainty =
                 IF pc = "observe" /\ pc' = "report"
                 THEN (IF sid = observable_shelves[current_observation_index + 1]
                       THEN 0
                       ELSE estimates[sid].uncertainty + 1)
                 ELSE estimates[sid].uncertainty]_vars

\* C6 witness: after an observation one shelf that was observed before has
\* become stale again and the shelf just observed is fresh
C6_Witness ==
    /\ pc = "report"
    /\ \E a, b \in DOMAIN estimates :
          /\ estimates[a].uncertainty = 0
          /\ estimates[a].last_observed_step >= 1
          /\ estimates[b].uncertainty = 1
          /\ estimates[b].last_observed_step >= 0

\* C8 (as claimed): for every accepted configuration, num_shelves = 1
\* included, run() never raises.
C8_RunNeverRaises == pc # "raised" /\ error = "none"

\* C9: events alternate MovementEvent, ObservationEvent; the step() of a tick
\* has returned before its observe() is called and the observe() of a tick
\* before the next step(); the observation of a tick carries the observed
\* shelf's quantity after that tick's movements; a finished run returns
\* 2 * num_steps events.
C9_MovementPrecedesObservation ==
    /\ \A i \in 1..Len(events_log) :
          events_log[i].kind =
              IF i % 2 = 1 THEN "MovementEvent" ELSE "ObservationEvent"
    /\ InStep => Len(events_log) = 2 * step /\ current_step = step
    /\ pc = "observe" => Len(events_log) = 2 * step + 1 /\ current_step = step + 1
    /\ pc = "report" =>
          /\ Len(events_log) = 2 * (step + 1)
          /\ current_step = step + 1
          /\ events_log[Len(events_log)].step = step
          /\ events_log[Len(events_log)].true_quantity =
                 inventory[events_log[Len(events_log)].observed_shelf]
    /\ results # NoResults =>
          /\ Len(results.events_log) = 2 * num_steps
          /\ \A i \in 1..Len(results.events_log) :
                results.events_log[i].kind =
                    IF i % 2 = 1 THEN "MovementEvent" ELSE "ObservationEvent"

\* C9 witness: a finished run of at least two ticks in which an item moved and
\* an observation found a quantity that differs from the previous estimate
C9_Witness ==
    /\ results # NoResults
    /\ num_steps >= 2
    /\ \E i, j \in 1..Len(results.events_log) :
          /\ results.events_log[i].kind = "MovementEvent"
          /\ results.events_log[i].source_shelf # results.events_log[i].destination_shelf
          /\ results.events_log[j].kind = "ObservationEvent"
          /\ results.events_log[j].true_quantity # results.events_log[j].previous_estimate

\* C10: for every feasible input the returned distribution has one entry per
\* shelf, every entry in 0..shelf_capacity, and sum total_items, whichever of
\* the random phase and the sequential fill placed the items.
C10_DistributionFeasible ==
    (dist_pc = "returned"
        /\ config.total_items <= config.num_shelves * config.shelf_capacity) =>
        /\ DOMAIN distribution = Shelves
        /\ \A s \in Shelves :
              0 <= distribution[s] /\ distribution[s] <= config.shelf_capacity
        /\ SumTo(distribution, config.num_shelves) = config.total_items
        /\ distribution \in InitialDistributions(config.num_shelves,
               config.total_items, config.shelf_capacity)

\* C10 witness: a system filled to its total capacity, the last items placed
\* by the sequential fill
C10_Witness ==
    /\ dist_pc = "returned"
    /\ config.num_shelves >= 2
    /\ config.total_items = config.num_shelves * config.shelf_capacity
    /\ fallback_placed > 0

\* C11: the initial distribution always terminates: the random placement loop
\* makes at most 100 * total_items attempts whatever the draws are, the
\* sequential fill never places more than the items that remain, for a
\* feasible input it has placed exactly the remaining items when the call
\* returns, and every call does return.
C11_DistributionTerminates ==
    /\ [](/\ attempts <= AttemptsPerItem * config.total_items
          /\ items_placed <= config.total_items
          /\ fallback_placed <= items_placed
          /\ (dist_pc = "returned"
                /\ config.total_items <= config.num_shelves * config.shelf_capacity)
              => items_placed = config.total_items)
    /\ <>(dist_pc = "returned")

\* C11 witness: the attempt budget ran out with items unplaced and the
\* sequential fill placed the rest
C11_Witness ==
    /\ dist_pc = "returned"
    /\ attempts = AttemptsPerItem * config.total_items
    /\ fallback_placed > 0
    /\ items_placed = config.total_items
    /\ items_placed - fallback_placed > 0

\* the snapshot ticks of a history: 0, r, 2r, ... in this order
SnapshotTicksRegular(history, r) ==
    \A i \in 1..Len(history) : history[i].step = (i - 1) * r

\* C12: run(num_steps, report_interval) on a fresh runner records a snapshot
\* at tick 0 before any step() and one after each tick whose 1-based count is
\* a multiple of report_interval: the ticks are 0, r, 2r, ... in increasing
\* order, 1 + floor(k / r) of them after k ticks, and the returned history
\* holds 1 + floor(num_steps / r).
C12_SnapshotSchedule ==
    /\ pc \in {"loop", "step_shelf", "step_item", "observe", "report"} =>
          /\ Len(analytics_history) = 1 + (step \div report_interval)
          /\ SnapshotTicksRegular(analytics_history, report_interval)
    /\ pc = "loop" =>
          /\ Len(events_log) = 2 * step
          /\ current_step = step
          /\ step = 0 => events_log = << >> /\ Len(analytics_history) = 1
    /\ results # NoResults =>
          /\ Len(results.analytics_history) = 1 + (num_steps \div report_interval)
          /\ SnapshotTicksRegular(results.analytics_history, report_interval)
          /\ \A i \in 1..Len(results.analytics_history) :
                results.analytics_history[i].step <= num_steps

\* C12 witness: a returned run of three ticks with interval two, whose
\* snapshots are those of ticks 0 and 2
C12_Witness ==
    /\ results # NoResults
    /\ num_steps = 3
    /\ report_interval = 2
    /\ Len(results.analytics_history) = 2
    /\ results.analytics_history[2].step = 2

\* the record step() returns when no item moved
IsSentinel(e) ==
    e.source_shelf = 0 /\ e.destination_shelf = 0 /\ e.direction = "right"

\* the movement events returned so far
MovementsLogged ==
    {i \in 1..Len(RunLog) : RunLog[i].kind = "MovementEvent"}

\* C13: with movement_probability = 0 no transition of step() changes a
\* shelf quantity, no item attempt is made, and every record step() returns
\* is the no-movement sentinel (source 0, destination 0, direction right).
C13_ZeroProbabilityFreezes ==
    /\ [][config.movement_probability = Fix(0) => inventory' = inventory]_vars
    /\ [](config.movement_probability = Fix(0) =>
            /\ pc # "step_item"
            /\ InStep => inventory = initial_quantities /\ total_movements = 0
            /\ AtStepEnd => IsSentinel(StepEvent)
            /\ \A i \in MovementsLogged : IsSentinel(RunLog[i]))

\* C13 witness: a second step() ends over non-empty shelves with
\* movement_probability = 0, the first having returned its record
C13_Witness ==
    /\ config.movement_probability = Fix(0)
    /\ config.total_items > 0
    /\ AtStepEnd
    /\ current_step >= 1
    /\ MovementsLogged # {}
    /\ inventory[0] > 0

\* destination d is the neighbour of source s in the given direction
IsNeighbourMove(s, d, direction) ==
    \/ direction = "right" /\ d = (s + 1) % config.num_shelves
    \/ direction = "left" /\ d = (s + config.num_shelves - 1) % config.num_shelves

\* what one transition does to the move step() will report
ReportedMoveStep ==
    /\ inventory' # inventory =>
          /\ last_source' = shelf_id
          /\ IsNeighbourMove(last_source', last_dest', last_direction')
          /\ inventory'[last_source'] = inventory[last_source'] - 1
          /\ inventory'[last_dest'] = inventory[last_dest'] + 1
          /\ total_movements' = total_movements + 1
    /\ (InStep /\ InStep' /\ inventory' = inventory) =>
          UNCHANGED <<last_source, last_dest, last_direction, total_movements>>
    /\ (AtStepEnd /\ pc' = "observe") =>
          LET e == events_log'[Len(events_log')]
          IN  /\ Len(events_log') = Len(events_log) + 1
              /\ e.kind = "MovementEvent"
              /\ IF total_movements > 0
                 THEN /\ e.source_shelf = last_source
                      /\ e.destination_shelf = last_dest
                      /\ e.direction = last_direction
                 ELSE IsSentinel(e)

\* C14: the record step() returns describes the last successful move of the
\* call when at least one item moved: each successful move takes one item
\* from its source to (source + 1) mod num_shelves for "right" and to
\* (source - 1) mod num_shelves for "left" and becomes the move to report, a
\* blocked attempt leaves the move to report as it was, and the returned
\* record carries that move; when nothing moved the record is the sentinel
\* with source 0, destination 0 and direction "right".
C14_LastSuccessfulMove ==
    /\ [][ReportedMoveStep]_vars
    /\ [](\A i \in MovementsLogged :
             \/ IsSentinel(RunLog[i])
             \/ IsNeighbourMove(RunLog[i].source_shelf,
                                RunLog[i].destination_shelf, RunLog[i].direction))

\* C14 witness: a returned record of a leftward move from shelf 0 that wraps
\* to the last of three shelves
C14_Witness ==
    /\ config.num_shelves = 3
    /\ pc = "observe"
    /\ events_log # << >>
    /\ LET e == events_log[Len(events_log)]
       IN  /\ e.kind = "MovementEvent"
           /\ e.source_shelf = 0
           /\ e.destination_shelf = 2
           /\ e.direction = "left"

\* what one transition does to the simulator's tick counter
TickCounterStep ==
    IF AtStepEnd /\ pc' = "observe"
    THEN /\ current_step' = current_step + 1
         /\ events_log'[Len(events_log')].kind = "MovementEvent"
         /\ events_log'[Len(events_log')].step = current_step
    ELSE current_step' = current_step

\* C15: every call of step() increases the tick counter by exactly one and no
\* other operation changes it; the returned record carries the value of the
\* counter before the increment, so the k-th step() of a fresh simulator
\* returns tick k - 1.
C15_TickCounter ==
    /\ [][TickCounterStep]_vars
    /\ [](\A i \in MovementsLogged :
             RunLog[i].step = Cardinality({j \in MovementsLogged : j < i}))
    /\ [](results = NoResults /\ pc # "idle" =>
             current_step = Cardinality(MovementsLogged))

\* C15 witness: the third step() of a fresh simulator has returned tick 2
C15_Witness ==
    /\ pc = "observe"
    /\ current_step = 3
    /\ Cardinality(MovementsLogged) = 3
    /\ events_log[Len(events_log)].step = 2

\* the positions in the log of the observations of shelf s made so far
ObservationsOf(s) ==
    {i \in 1..Len(events_log) :
        events_log[i].kind = "ObservationEvent" /\ events_log[i].observed_shelf = s}

\* the true quantity recorded at the latest observation of shelf s, 0 if none
LastRecordedQuantity(s) ==
    IF ObservationsOf(s) = {} THEN 0
    ELSE events_log[MaxOf(ObservationsOf(s))].true_quantity

\* what a completed observe() does to the belief table and what it returns
ObserveStep ==
    (pc = "observe" /\ pc' = "report") =>
        LET s == observable_shelves[current_observation_index + 1]
            e == events_log'[Len(events_log')]
        IN  /\ estimates'[s].estimated_quantity = inventory[s]
            /\ estimates'[s].last_observed_step = step
            /\ DOMAIN estimates' = DOMAIN estimates
            /\ \A other \in DOMAIN estimates \ {s} :
                  /\ estimates'[other].estimated_quantity =
                        estimates[other].estimated_quantity
                  /\ estimates'[other].last_observed_step =
                        estimates[other].last_observed_step
            /\ Len(events_log') = Len(events_log) + 1
            /\ e.kind = "ObservationEvent"
            /\ e.step = step
            /\ e.observed_shelf = s
            /\ e.true_quantity = inventory[s]
            /\ e.previous_estimate = LastRecordedQuantity(s)
            /\ inventory' = inventory

\* C16: observe() at tick t, with shelf s next on the cursor, sets the
\* belief of s to the current true quantity of s and its last observed tick
\* to t, leaves the estimated quantity and last observed tick of every other
\* shelf unchanged, and returns the record (t, s, true quantity, previous
\* estimate), where the previous estimate is 0 if s was never observed and
\* otherwise the true quantity recorded at the previous observation of s.
C16_ObserveEffect == [][ObserveStep]_vars

\* C16 witness: a shelf observed before is observed again after its quantity
\* changed, so the record carries two different non-zero quantities
C16_Witness ==
    /\ pc = "report"
    /\ LET e == events_log[Len(events_log)]
       IN  /\ e.kind = "ObservationEvent"
           /\ e.previous_estimate > 0
           /\ e.true_quantity > 0
           /\ e.true_quantity # e.previous_estimate
           /\ estimates[e.observed_shelf].estimated_quantity = e.true_quantity

\* the cells a caller reads through a handle
CellsOf(h) ==
    IF ~h.shared THEN h.table
    ELSE IF h.owner = "simulator" THEN inventory ELSE estimates

\* what one caller transition does to the internal tables
CallerStep ==
    /\ UNCHANGED <<inventory, estimates>>
    /\ Len(handles') > Len(handles) =>
          LET h == handles'[Len(handles')]
          IN  h.table = IF h.owner = "simulator" THEN inventory ELSE estimates

\* C17: get_state() and get_estimates() hand out copies: whatever a caller
\* writes into a returned DataFrame, the simulator's quantities and the
\* observer's belief table stay as they were, and a later call returns the
\* internal cells again.
C17_DefensiveCopies == [][CallerStep]_vars

\* C17 witness: a caller has overwritten a cell of a returned state and a cell
\* of a returned belief table, and both now differ from the internal tables
C17_Witness ==
    \E h1, h2 \in 1..Len(handles) :
        /\ handles[h1].owner = "simulator"
        /\ CellsOf(handles[h1]) # inventory
        /\ handles[h2].owner = "observer"
        /\ CellsOf(handles[h2]) # estimates

\* the argument tuple breaks at least one of the documented constraints
ViolatesConstraint(c) ==
    \/ c.num_shelves <= 0
    \/ c.shelf_capacity <= 0
    \/ c.total_items < 0
    \/ c.total_items > c.num_shelves * c.shelf_capacity
    \/ c.unobserved_shelf_id < 0
    \/ c.unobserved_shelf_id >= c.num_shelves
    \/ c.movement_probability < Fix(0)
    \/ c.movement_probability > Fix(1)
    \/ c.shelf_0_mode \notin {"normal", "leak_then_trap"}
    \/ c.trap_start_step < 0
    \/ c.process_noise_q < 0

\* C18: constructing a configuration that violates any constraint fails with
\* ValueError before anything is built from it, and every configuration that
\* satisfies all the constraints is accepted.
C18_ValidationExact ==
    /\ pc = "raised" =>
          /\ error = "ValueError"
          /\ ViolatesConstraint(config)
          /\ inventory = << >> /\ estimates = << >> /\ results = NoResults
    /\ pc = "constructed" => ~ViolatesConstraint(config) /\ error = "none"
    /\ pc \in {"construct", "raised", "constructed"}

\* C18 witness: a configuration whose only fault is one item more than the
\* total capacity has been refused
C18_Witness ==
    /\ pc = "raised"
    /\ config.num_shelves = 2
    /\ config.shelf_capacity = 2
    /\ config.total_items = 5
    /\ config.unobserved_shelf_id = 1
    /\ config.movement_probability = Fix(1)
    /\ config.shelf_0_mode = ModeLeakThenTrap
    /\ config.trap_start_step = 0
    /\ config.process_noise_q = Fix(0)

\* C19: distribute_items_randomly raises ValueError when total_items exceeds
\* num_shelves * shelf_capacity, so a call never returns a distribution whose
\* sum differs from total_items.
C19_NeverReturnsWrongSum ==
    dist_pc = "returned" =>
        /\ config.total_items <= config.num_shelves * config.shelf_capacity
        /\ SumTo(distribution, config.num_shelves) = config.total_items

\* the snapshots of the run: the returned history once run() has returned
RunHistory == IF results # NoResults THEN results.analytics_history ELSE analytics_history

PendingEstimates ==
    LET s == observable_shelves[current_observation_index + 1]
    IN  UpdatedEstimates(estimates, s, inventory[s], step)

C22_DeparturesWithinSnapshot ==
    /\ [](pc = "step_item" =>
            /\ initial_quantities[shelf_id] > 0
            /\ num_items_to_move <= initial_quantities[shelf_id]
            /\ item_index < num_items_to_move)
    /\ [][\A s \in Shelves :
             (InStep /\ inventory'[s] < inventory[s]) =>
                 /\ pc = "step_item" /\ s = shelf_id
                 /\ inventory'[s] = inventory[s] - 1
                 /\ item_index' = item_index + 1 \/ shelf_id' = shelf_id + 1]_vars

\* C22 witness: items are about to leave a shelf that holds more than its
\* snapshot quantity because a lower-numbered shelf sent it an item this tick
C22_Witness ==
    /\ pc = "step_item"
    /\ item_index = 0
    /\ inventory[shelf_id] > initial_quantities[shelf_id]
    /\ num_items_to_move = initial_quantities[shelf_id]

\* the pre-increment tick counter of the latest step() that has begun, -1 if none
LatestStepTick == IF InStep THEN current_step ELSE current_step - 1

\* what one transition does to the trap and to the trapped shelf
TrapStep ==
    /\ trap_active => trap_active'
    /\ (trap_active' /\ inventory' # inventory) =>
          /\ last_source' # 0
          /\ inventory'[0] >= inventory[0]

\* C23: in leak_then_trap mode the trap is active exactly from the first
\* step() whose pre-increment tick counter is >= trap_start_step and stays
\* active in every later step; from then on shelf 0 is never the source of a
\* move (it may still be a destination). In normal mode the trap is never
\* active.
C23_TrapActivation ==
    /\ [](trap_active <=>
            (config.shelf_0_mode = ModeLeakThenTrap
                /\ LatestStepTick >= config.trap_start_step))
    /\ [](config.shelf_0_mode = ModeNormal => ~trap_active)
    /\ [][TrapStep]_vars

\* C23 witness: the trap activated at tick 1, not at tick 0, and the trapped
\* shelf 0 has just received an item from a neighbour
C23_Witness ==
    /\ config.shelf_0_mode = ModeLeakThenTrap
    /\ config.trap_start_step = 1
    /\ trap_active
    /\ AtStepEnd
    /\ total_movements > 0
    /\ last_dest = 0
    /\ inventory[0] > initial_quantities[0]

\* the shelf one place to the left or right of s on the ring
Neighbour(s, direction) ==
    IF direction = "right" THEN (s + 1) % config.num_shelves
    ELSE (s + config.num_shelves - 1) % config.num_shelves

\* what the attempt of one departing item does
AttemptStep ==
    (pc = "step_item" /\ inventory[shelf_id] > 0) =>
        /\ \E direction \in {"left", "right"} :
              LET dst == Neighbour(shelf_id, direction)
              IN  IF inventory[dst] < config.shelf_capacity
                  THEN inventory' = [inventory EXCEPT ![shelf_id] = @ - 1,
                                                      ![dst] = @ + 1]
                  ELSE inventory' = inventory
        /\ \/ item_index' = item_index + 1 /\ shelf_id' = shelf_id /\ pc' = pc
           \/ item_index + 1 = num_items_to_move /\ shelf_id' = shelf_id + 1
                 /\ pc' = "step_shelf"

\* C24: each departing item makes one direction draw and one attempt: the
\* move succeeds iff the destination's live quantity is below shelf_capacity
\* at that moment; otherwise source and destination are left unchanged, and
\* either way the item is used up: no other direction or shelf is tried.
C24_OneAttemptPerItem == [][AttemptStep]_vars

\* C24 witness: with movement_probability = 1 a step() over non-empty shelves
\* ends with every attempt blocked and every quantity as in the snapshot
C24_Witness ==
    /\ AtStepEnd
    /\ config.movement_probability = Fix(1)
    /\ ~trap_active
    /\ config.total_items > 0
    /\ total_movements = 0
    /\ inventory = initial_quantities

\* C25: in a run of a freshly constructed runner, after the observation of
\* tick t every tracked shelf has staleness = t - last_observed_tick; a shelf
\* never observed has last_observed_tick = -1 and staleness t + 1.
C25_StalenessIsAge ==
    pc = "report" =>
        \A sid \in DOMAIN estimates :
            /\ estimates[sid].uncertainty = step - estimates[sid].last_observed_step
            /\ estimates[sid].last_observed_step = -1 =>
                  estimates[sid].uncertainty = step + 1

\* C25 witness: after the observation of tick 2 the shelf just observed has
\* staleness 0 and a shelf observed at tick 1 has staleness 1
C25_Witness ==
    /\ pc = "report"
    /\ step = 2
    /\ \E sid \in DOMAIN estimates :
          /\ estimates[sid].last_observed_step = 1
          /\ estimates[sid].uncertainty = 1
    /\ \E sid \in DOMAIN estimates :
          /\ estimates[sid].last_observed_step = 2
          /\ estimates[sid].uncertainty = 0

\* one predict/update cycle from (x, P) with noise Q over belief table est
CycleState(x, P, Q, est) ==
    LET z == Fix(SumOver([sid \in DOMAIN est |-> est[sid].estimated_quantity],
                         DOMAIN est))
        R == Fix(10) + RoundDiv(Fix(SumOver([sid \in DOMAIN est |->
                                    est[sid].uncertainty], DOMAIN est)), 2)
        K == FixDiv(P + Q, P + Q + R)
    IN  <<x + FixMul(K, z - x), FixMul(Fix(1) - K, P + Q)>>

\* what one transition does to the estimator
EstimatorStep ==
    /\ IF pc = "observe" /\ pc' = "report"
       THEN <<kf_state', kf_covariance'>> =
                CycleState(kf_state, kf_covariance, kf_process_noise, estimates')
       ELSE UNCHANGED <<kf_state, kf_covariance>>
    /\ UNCHANGED kf_process_noise

\* C26: the estimator starts at x = 0, P = 1000, Q = config.process_noise_q;
\* each observe() performs exactly one predict/update cycle; no other
\* operation changes x or P, nothing resets them, and Q never changes.
C26_EstimatorLifecycle ==
    /\ [](kf_process_noise = config.process_noise_q)
    /\ []((results = NoResults /\ pc \in {"idle", "initial_analytics"}) =>
             kf_state = 0 /\ kf_covariance = Fix(1000))
    /\ []((pc = "loop" /\ step = 0) => kf_state = 0 /\ kf_covariance = Fix(1000))
    /\ [][EstimatorStep]_vars

\* C26 witness: a run with non-zero process noise has returned after three
\* cycles, the estimate and covariance left as the last observe() stored them
C26_Witness ==
    /\ results # NoResults
    /\ current_step = 3
    /\ kf_process_noise > 0
    /\ kf_state > 0
    /\ kf_covariance < Fix(1000)

\* what one transition does to the component it does not belong to
ComponentFrameStep ==
    /\ pc = "observe" =>
          /\ UNCHANGED <<inventory, current_step, trap_active>>
          /\ pc' = "report" =>
                get_quantity_calls' = get_quantity_calls
                    \cup {observable_shelves[current_observation_index + 1]}
    /\ (InStep \/ InStep') =>
          UNCHANGED <<estimates, current_observation_index, kf_state,
                      kf_covariance, observable_shelves, get_quantity_calls>>
    /\ pc \in {"initial_analytics", "report"} \/ pc' = "idle" =>
          /\ UNCHANGED <<inventory, current_step, trap_active>>
          /\ UNCHANGED <<estimates, current_observation_index, kf_state,
                         kf_covariance, observable_shelves, get_quantity_calls>>

\* C27: observe() leaves the simulator's quantities, tick counter and trap
\* flag unchanged and asks get_quantity for the scheduled shelf only; step()
\* leaves the observer's belief table, cursor, x and P unchanged; get_quantity
\* and get_state (called by observe(), by the analytics collection and by the
\* return of run()) change nothing.
C27_ComponentFrames ==
    /\ [][ComponentFrameStep]_vars
    /\ [](get_quantity_calls \subseteq Range(observable_shelves))

\* C27 witness: after two steps that moved items and two observations, exactly
\* the two scheduled shelves have been read
C27_Witness ==
    /\ pc = "report"
    /\ current_step = 2
    /\ Cardinality(get_quantity_calls) = 2
    /\ \A i \in MovementsLogged : ~IsSentinel(RunLog[i])

\* C28 as stated: every random draw of a run (initial distribution, binomial
\* departure counts, direction choices) is taken from the one generator
\* instance the Simulator owns.
C28_SingleGenerator == rng_used \subseteq {"Simulator._rng"}

\* what one transition does to the set of generators that have drawn
GeneratorStep ==
    rng_used' # rng_used =>
        /\ InStep
        /\ rng_used' = rng_used \cup {"Simulator._rng"}

\* C28 as amended: the draws of a run come from two generator instances made
\* from the same seed: the initial distribution draws from a generator local
\* to distribute_items_randomly, the binomial counts and direction choices
\* draw from the Simulator's generator, and that generator has produced no
\* draw when the first step() begins.
C28_TwoGenerators ==
    /\ [](rng_used \subseteq {"Simulator._rng", "distribute_items_randomly.rng"})
    /\ [](config.total_items > 0 => "distribute_items_randomly.rng" \in rng_used)
    /\ []((current_step = 0 /\ ~InStep) => "Simulator._rng" \notin rng_used)
    /\ [][GeneratorStep]_vars

\* C28 witness: during the first step() both generators have drawn
C28_Witness ==
    /\ current_step = 0
    /\ pc = "step_item"
    /\ rng_used = {"Simulator._rng", "distribute_items_randomly.rng"}

\* no item has moved since the simulator was constructed
NothingMoved ==
    /\ total_movements = 0
    /\ \A i \in MovementsLogged : IsSentinel(RunLog[i])

\* the composite measurement z: the sum of estimated_quantity over the belief table
MeasurementZ ==
    SumOver([sid \in DOMAIN estimates |-> estimates[sid].estimated_quantity],
            DOMAIN estimates)

\* the system total minus the hidden shelf's quantity
VisibleTotal == config.total_items - inventory[config.unobserved_shelf_id]

\* C29: while no item has moved, the measurement z never exceeds the system
\* total minus the hidden shelf's quantity, and once one full round-robin
\* cycle of M observations is complete every belief's estimated_quantity is
\* the shelf's true quantity and z equals that value.
C29_StaticCycleExact ==
    (NothingMoved /\ inventory # << >>) =>
        /\ MeasurementZ <= VisibleTotal
        /\ Cardinality(ObservationsLogged) >= Len(observable_shelves) =>
              /\ \A sid \in DOMAIN estimates :
                    estimates[sid].estimated_quantity = inventory[sid]
              /\ MeasurementZ = VisibleTotal

\* C29 witness: three shelves, nothing moved, the two observable shelves have
\* each been observed once, and the hidden shelf holds an item, so z is below
\* the system total
C29_Witness ==
    /\ NothingMoved
    /\ config.num_shelves = 3
    /\ Cardinality(ObservationsLogged) = 2
    /\ inventory[config.unobserved_shelf_id] = 1
    /\ MeasurementZ = 1
    /\ config.total_items = 2

\* the ground-truth total over the shelves the Observer tracks
TrackedTotal == SumOver(inventory, DOMAIN estimates)

\* C30: in every analytics report true_total is the ground-truth total over
\* exactly the shelves the Observer tracks (all shelves except
\* unobserved_shelf_id), for every hidden-shelf id in range.
C30_TrueTotalOverTracked ==
    /\ DOMAIN estimates = Shelves \ {config.unobserved_shelf_id}
    /\ (pc = "loop" /\ analytics_history[Len(analytics_history)].step = step) =>
          analytics_history[Len(analytics_history)].true_total = TrackedTotal

\* C31: for the tables get_state() and get_estimates() return and every
\* observable shelf id, calculate_shelf_error returns the estimated quantity
\* minus the true quantity of the shelf with that id.
C31_ShelfErrorOfGivenShelf ==
    inventory # << >> =>
        \A sid \in Range(observable_shelves) :
            calculate_shelf_error(get_state, get_estimates, sid) =
                [error |-> "none",
                 value |-> estimates[sid].estimated_quantity - inventory[sid]]

\* in log L the i-th pair is a movement and an observation that both carry tick i
PairsShareTick(L) ==
    \A j \in 1..Len(L) :
        /\ L[j].kind = (IF j % 2 = 1 THEN "MovementEvent" ELSE "ObservationEvent")
        /\ L[j].step = (j - 1) \div 2

\* C32: in the event log of any run() call, a second call on the same runner
\* included, the i-th pair (i = 0, 1, ...) is a MovementRecord followed by an
\* ObservationRecord that both carry tick i.
C32_PairsCarryTheirIndex ==
    /\ PairsShareTick(events_log)
    /\ results # NoResults => PairsShareTick(results.events_log)

StalenessValues == {estimates[sid].uncertainty : sid \in DOMAIN estimates}

\* the sum of the staleness values after k observe() calls on M shelves, k < M
StalenessSumBefore(k, M) == (k * (k - 1)) \div 2 + (M - k) * k

\* C33: with M observable shelves every staleness value is in [0, M-1]; after
\* k >= M observe() calls the staleness values are a permutation of 0..M-1,
\* their sum is M*(M-1)/2 and R = 10 + 0.5 * sum is that constant; after k < M
\* calls the sum is k*(k-1)/2 + (M-k)*k.
C33_StalenessPermutation ==
    LET M == Len(observable_shelves)
        k == Cardinality(ObservationsLogged)
    IN  /\ \A sid \in DOMAIN estimates :
               estimates[sid].uncertainty \in 0..(M - 1)
        /\ k >= M =>
               /\ StalenessValues = 0..(M - 1)
               /\ Cardinality(DOMAIN estimates) = M
               /\ UncertaintySum(estimates) = (M * (M - 1)) \div 2
               /\ MeasurementNoise(estimates) =
                      Fix(BaseNoise) + FixMul(Scale \div 2, Fix((M * (M - 1)) \div 2))
        /\ k < M => UncertaintySum(estimates) = StalenessSumBefore(k, M)

\* four observable shelves, after the fifth observe() call
C33_Witness_PastFullCycle ==
    /\ Len(observable_shelves) = 4
    /\ Cardinality(ObservationsLogged) = 5
    /\ pc = "idle"
    /\ StalenessValues = 0..3
    /\ UncertaintySum(estimates) = 6

\* four observable shelves, after the second observe() call: 1 + 2 * 2
C33_Witness_PartialCycle ==
    /\ Len(observable_shelves) = 4
    /\ Cardinality(ObservationsLogged) = 2
    /\ pc = "idle"
    /\ UncertaintySum(estimates) = 5

\* C34: at every point of a run every belief's estimated_quantity is in
\* [0, shelf_capacity] and is 0 for every shelf whose last_observed_step is -1,
\* so the composite measurement z lies in [0, M * shelf_capacity] for M
\* observable shelves.
C34_BeliefsWithinCapacity ==
    /\ \A sid \in DOMAIN estimates :
           /\ estimates[sid].estimated_quantity \in 0..config.shelf_capacity
           /\ estimates[sid].last_observed_step = -1 =>
                  estimates[sid].estimated_quantity = 0
    /\ MeasurementZ \in 0..(Len(observable_shelves) * config.shelf_capacity)
    /\ EstimatedSum(estimates) = MeasurementZ

\* a full shelf has been observed while another shelf has never been observed
C34_Witness_FullAndUnseen ==
    /\ Cardinality(ObservationsLogged) >= 1
    /\ config.shelf_capacity = MaxCapacity
    /\ \E sid \in DOMAIN estimates :
           /\ estimates[sid].last_observed_step >= 0
           /\ estimates[sid].estimated_quantity = config.shelf_capacity
    /\ \E sid \in DOMAIN estimates : estimates[sid].last_observed_step = -1
    /\ MeasurementZ = config.shelf_capacity

\* C35: when a shelf is processed as a source in step() its live quantity is
\* at least its snapshot quantity, and it is positive before each of its drawn
\* departures, so the "quantity == 0: break" guard is never taken and no
\* quantity is ever below 0, for every num_shelves >= 1.
C35_SourceNeverEmpty ==
    /\ (pc = "step_shelf" /\ shelf_id < config.num_shelves) =>
           inventory[shelf_id] >= initial_quantities[shelf_id]
    /\ pc = "step_item" =>
           /\ inventory[shelf_id] > 0
           /\ inventory[shelf_id] >= num_items_to_move - item_index
    /\ \A sid \in DOMAIN inventory : inventory[sid] >= 0

\* a single shelf, its own neighbour on both sides, about to lose its second
\* drawn item
C35_Witness_OneShelf ==
    /\ config.num_shelves = 1
    /\ pc = "step_item"
    /\ item_index = 1
    /\ num_items_to_move = 2

\* two shelves: shelf 1 has gained an item from shelf 0 before its own turn
C35_Witness_GainedBeforeTurn ==
    /\ config.num_shelves = 2
    /\ pc = "step_item"
    /\ shelf_id = 1
    /\ inventory[1] > initial_quantities[1]

=============================================================================
